---------------------------- MODULE Spec2Model ----------------------------
(***************************************************************************)
(* A model of the pKVM S2MPU hypervisor driver,                            *)
(* arch/arm64/kvm/hyp/nvhe/iommu/s2mpu.c.                                  *)
(*                                                                         *)
(* Physical addresses are counted in small units: SMPT_GRAN units make one *)
(* SMPT entry, SmptPerGb entries make one "gigabyte" region.  Register     *)
(* offsets are register names; bit-fields are sets or records.  Every      *)
(* MMIO access and every page donation an operation performs is appended   *)
(* to the operation's trace, in program order.                             *)
(***************************************************************************)
EXTENDS Integers, Sequences, FiniteSets, TLC

(* ------------------------------ bounds -------------------------------- *)

\* Number of S2MPU devices.
NrDevs == 1

\* Number of SysMMU-Sync children of device 1 (the other devices have none).
MaxChildren == 1

\* Number of 1 GiB regions covered by an MPT.
NR_GIGABYTES == 2

\* SMPT entries per 1 GiB region.
SmptPerGb == 2

\* Address units per SMPT entry.
SMPT_GRAN == 2

\* How far past PA_MAX the host's range arguments go.
AddrSlack == 1

\* Busy STATUS reads the device-busy wait may see before the idle one.
MaxBusyPolls == 1

(* ---------------------------- constants ------------------------------- *)

NR_CTX_IDS == 8

NR_VIDS == 8

SYNC_MAX_RETRIES == 5

SYNC_TIMEOUT == 5

SYNC_TIMEOUT_MULTIPLIER == 3

SZ_1G == SmptPerGb * SMPT_GRAN

PA_MAX == SZ_1G * NR_GIGABYTES

\* One invalidation PPN covers 2^RANGE_INVALIDATION_PPN_SHIFT address units.
PpnSize == SMPT_GRAN

ALL_VIDS_BITMAP == 0 .. (NR_VIDS - 1)

Gigabytes == 0 .. (NR_GIGABYTES - 1)

Devs == 1 .. NrDevs

NrChildrenOf(d) == IF d = 1 THEN MaxChildren ELSE 0

Children(d) == 1 .. NrChildrenOf(d)

MPT_PROT_NONE == {}

MPT_PROT_RW == {"R", "W"}

\* enum kvm_pgtable_prot values the host passes (X is not an MPT bit).
KvmProts == { {}, {"R", "W", "X"} }

\* Values the VERSION register reads: the version field and the revision.
VersionReads == { [check |-> c, rev |-> 0] : c \in {"ZERO", "V1", "V2", "V9"} }

VersionZero == [check |-> "ZERO", rev |-> 0]

\* Values NUM_CONTEXT & NUM_CONTEXT_MASK reads.
NumContextReads == {0, NR_CTX_IDS - 1}

(* ------------------------------ events -------------------------------- *)

S2mpu(d) == [k |-> "s2mpu", d |-> d, c |-> 0]

Sync(d, c) == [k |-> "sync", d |-> d, c |-> c]

\* writel_relaxed(val, dev->va + reg), reg being the idx-th of its family.
W(dev, reg, idx, val) ==
  [t |-> "W", dev |-> dev, reg |-> reg, idx |-> idx, val |-> val]

\* readl_relaxed(dev->va + reg) polled n times; ok: the wait's condition was met.
P(dev, reg, n, ok) ==
  [t |-> "P", dev |-> dev, reg |-> reg, idx |-> n, val |-> ok]

\* readl_relaxed(dev->va + reg) once.
R(dev, reg) ==
  [t |-> "R", dev |-> dev, reg |-> reg, idx |-> 0, val |-> 0]

\* A page donation call for the SMPT buffer of region gb, and whether it
\* returned 0.
D(fn, gb, ok) ==
  [t |-> "D", dev |-> S2mpu(0), reg |-> fn, idx |-> gb, val |-> ok]

IsWrite(e) == e.t = "W"

Writes(tr) == SelectSeq(tr, IsWrite)


(* ------------------- the MPT and its operations (mpt_ops) ------------- *)

SmptIdx == 0 .. (SmptPerGb - 1)

\* struct fmpt after memset(0): no SMPT buffer, no 1G mapping.
FmptZero ==
  [smpt |-> 0, gran_1g |-> FALSE, prot |-> MPT_PROT_NONE,
   tbl |-> [c \in SmptIdx |-> MPT_PROT_NONE]]

MptZero == [gb \in Gigabytes |-> FmptZero]

\* The hyp address of the SMPT buffer the host supplies for region gb.
SmptOf(gb) == gb + 1

\* What s2mpu_init installs for a claimed region.
FmptInit(gb) ==
  [smpt |-> SmptOf(gb), gran_1g |-> TRUE, prot |-> MPT_PROT_RW,
   tbl |-> [c \in SmptIdx |-> MPT_PROT_RW]]

\* The permission the MPT gives SMPT entry c of region gb.
MptProt(mpt, gb, c) ==
  IF mpt[gb].gran_1g THEN mpt[gb].prot ELSE mpt[gb].tbl[c]

\* One region of prepare_range: bytes first..last of the region get prot.
set_fmpt_range(f, first, last, prot) ==
  IF first = 0 /\ last = SZ_1G - 1
    THEN [f EXCEPT !.gran_1g = TRUE, !.prot = prot,
                   !.tbl = [c \in SmptIdx |-> prot]]
    ELSE IF f.gran_1g /\ f.prot = prot
      THEN f
      ELSE [f EXCEPT !.gran_1g = FALSE, !.prot = MPT_PROT_NONE,
                     !.tbl = [c \in SmptIdx |->
                                IF c >= first \div SMPT_GRAN /\ c <= last \div SMPT_GRAN
                                  THEN prot
                                  ELSE MptProt([g \in {0} |-> f], 0, c)]]

\* mpt_ops->prepare_range(mpt, first_byte, last_byte, prot)
prepare_range(mpt, first_byte, last_byte, prot) ==
  LET first_gb == first_byte \div SZ_1G
      last_gb == last_byte \div SZ_1G
  IN [gb \in Gigabytes |->
        IF gb < first_gb \/ gb > last_gb
          THEN mpt[gb]
          ELSE set_fmpt_range(mpt[gb],
                 IF gb = first_gb THEN first_byte % SZ_1G ELSE 0,
                 IF gb = last_gb THEN last_byte % SZ_1G ELSE SZ_1G - 1,
                 prot)]

L1ENTRY_ATTR_1G(prot) == [gran_1g |-> TRUE, prot |-> prot]

L1ENTRY_ATTR_L2 == [gran_1g |-> FALSE, prot |-> MPT_PROT_NONE]

\* The L1 entry writes that make region gb of a device follow fmpt f.
l1entry_writes(dev, gb, f) ==
  IF f.gran_1g
    THEN << W(dev, "L1ENTRY_ATTR", gb, L1ENTRY_ATTR_1G(f.prot)) >>
    ELSE << W(dev, "L1ENTRY_L2TABLE_ADDR", gb, f.smpt),
            W(dev, "L1ENTRY_ATTR", gb, L1ENTRY_ATTR_L2) >>

RECURSIVE mpt_writes(_, _, _, _)
mpt_writes(dev, mpt, gb, last_gb) ==
  IF gb > last_gb \/ gb \notin Gigabytes
    THEN << >>
    ELSE l1entry_writes(dev, gb, mpt[gb]) \o mpt_writes(dev, mpt, gb + 1, last_gb)

\* mpt_ops->init_with_prot(dev->va, prot)
init_with_prot(dev, prot) ==
  mpt_writes(dev, [gb \in Gigabytes |-> [FmptZero EXCEPT !.gran_1g = TRUE, !.prot = prot]],
             0, NR_GIGABYTES - 1)

\* mpt_ops->init_with_mpt(dev->va, mpt)
init_with_mpt(dev, mpt) == mpt_writes(dev, mpt, 0, NR_GIGABYTES - 1)

\* mpt_ops->apply_range(dev->va, mpt, first_gb, last_gb)
apply_range(dev, mpt, first_gb, last_gb) == mpt_writes(dev, mpt, first_gb, last_gb)

(* --------------------------- the hardware ----------------------------- *)

\* The registers of an S2MPU that configure its protection.
CtlRegs ==
  { "CONTEXT_CFG_VALID_VID", "INTERRUPT_ENABLE_PER_VID_SET", "CFG", "CTRL1",
    "CTRL0", "V9_CTRL_ERR_RESP_T_PER_VID_SET", "V9_CTRL_PROT_EN_PER_VID_SET",
    "V9_CFG_MPTW_ATTRIBUTE" }

\* An S2MPU out of reset: every region blocked, no control register written
\* (a register holds << >> until written, then << value >>).
HwReset ==
  [attr |-> [gb \in Gigabytes |-> L1ENTRY_ATTR_1G(MPT_PROT_NONE)],
   l2 |-> [gb \in Gigabytes |-> 0],
   regs |-> [r \in CtlRegs |-> << >>]]

\* The effect of one MMIO write on the S2MPU it addresses.
HwWrite(h, e) ==
  IF e.reg = "L1ENTRY_ATTR" THEN [h EXCEPT !.attr[e.idx] = e.val]
  ELSE IF e.reg = "L1ENTRY_L2TABLE_ADDR" THEN [h EXCEPT !.l2[e.idx] = e.val]
  ELSE IF e.reg \in CtlRegs THEN [h EXCEPT !.regs[e.reg] = << e.val >>]
  ELSE h

RECURSIVE HwApply(_, _, _, _)
HwApply(h, dev, tr, i) ==
  IF i > Len(tr)
    THEN h
    ELSE HwApply(IF tr[i].t = "W" /\ tr[i].dev = dev THEN HwWrite(h, tr[i]) ELSE h,
                 dev, tr, i + 1)

\* The permission the device enforces on SMPT entry c of region gb: the L1
\* entry's, or with an L2 entry the SMPT buffer's, which lives in RAM.
HwProt(h, mpt, gb, c) ==
  IF h.attr[gb].gran_1g THEN h.attr[gb].prot
  ELSE IF h.l2[gb] # 0 /\ h.l2[gb] = mpt[gb].smpt THEN mpt[gb].tbl[c]
  ELSE MPT_PROT_NONE

\* Region gb of the device is programmed as the MPT has it.
HwFollows(h, mpt, gb) ==
  IF mpt[gb].gran_1g
    THEN h.attr[gb] = L1ENTRY_ATTR_1G(mpt[gb].prot)
    ELSE h.attr[gb] = L1ENTRY_ATTR_L2 /\ h.l2[gb] = mpt[gb].smpt

(* ------------------------------ state --------------------------------- *)

VARIABLES
  drv,       \* the framework's view of the driver: "uninit" or "ready"
  reg_ops,   \* "NULL", "ops_v1_v2" or "ops_v9"
  mpt_ops,   \* "NULL" or "ops"
  host_mpt,  \* struct mpt host_mpt
  pages,     \* owner of each region's SMPT buffer: "host" or "hyp"
  data,      \* per device: struct s2mpu_drv_data
  hw,        \* per device: the hardware's protection configuration
  life,      \* per device: "Reset" or "Active" (section 4.6 of the spec)
  call,      \* the last operation: its name, arguments and return value
  trace,     \* the MMIO accesses and donations of the last operation
  dabt,      \* the last host MMIO trap: offset, ESR fields, host registers
  bar        \* the invalidation barrier in progress, poll by poll

vars ==
  << drv, reg_ops, mpt_ops, host_mpt, pages, data, hw, life, call, trace, dabt, bar >>

(* ------------------------ pure driver helpers ------------------------- *)

\* prot_to_mpt(prot)
prot_to_mpt(prot) ==
  (IF "R" \in prot THEN {"R"} ELSE {}) \cup (IF "W" \in prot THEN {"W"} ELSE {})

\* data->version & VERSION_CHECK_MASK
VersionCheck(version) == version.check

\* is_version(dev, version), on the device's cached data
is_version(dd, version) == VersionCheck(dd.version) = version

ALIGN_DOWN(x, a) == (x \div a) * a

ALIGN(x, a) == ((x + a - 1) \div a) * a

\* A to_valid_range that takes a range of no bytes for a valid one.
to_valid_range_off_by_one(start, end) ==
  LET clamped == IF end > PA_MAX THEN PA_MAX ELSE end
      new_start == ALIGN_DOWN(start, SMPT_GRAN)
      new_end == ALIGN(clamped, SMPT_GRAN)
  IN IF new_start > new_end
       THEN [ok |-> FALSE, start |-> start, end |-> end]
       ELSE [ok |-> TRUE, start |-> new_start, end |-> new_end]

\* A to_valid_range that rounds the end down instead of up.
to_valid_range_round_down(start, end) ==
  LET clamped == IF end > PA_MAX THEN PA_MAX ELSE end
      new_start == ALIGN_DOWN(start, SMPT_GRAN)
      new_end == ALIGN_DOWN(clamped, SMPT_GRAN)
  IN IF new_start >= new_end
       THEN [ok |-> FALSE, start |-> start, end |-> end]
       ELSE [ok |-> TRUE, start |-> new_start, end |-> new_end]

\* to_valid_range(&start, &end): ok is the return value, start and end the
\* arguments afterwards (untouched on failure).
to_valid_range(start, end) ==
  LET clamped == IF end > PA_MAX THEN PA_MAX ELSE end
      new_start == ALIGN_DOWN(start, SMPT_GRAN)
      new_end == ALIGN(clamped, SMPT_GRAN)
  IN IF new_start >= new_end
       THEN [ok |-> FALSE, start |-> start, end |-> end]
       ELSE [ok |-> TRUE, start |-> new_start, end |-> new_end]

\* The value 0 of CONTEXT_CFG_VALID_VID: per context id, its VID field and
\* its valid bit.
CtxCfgZero == [i \in 0 .. (NR_CTX_IDS - 1) |-> [vid |-> 0, valid |-> FALSE]]

\* The allocation loop of __context_cfg_valid_vid.
RECURSIVE ctx_alloc(_, _, _, _)
ctx_alloc(vid_bmap, ctx, num_ctx, ctx_vid) ==
  IF vid_bmap = {} \/ ctx >= num_ctx
    THEN [ctx |-> ctx, ctx_vid |-> ctx_vid]
    ELSE LET vid == CHOOSE v \in vid_bmap : \A w \in vid_bmap : v <= w
         IN ctx_alloc(vid_bmap \ {vid}, ctx + 1, num_ctx,
                      [ctx_vid EXCEPT ![ctx] = vid])

\* CTX_CFG_ENTRY(ctxid, nr_ctx, vid), the field of context ctxid
CTX_CFG_ENTRY(ctxid, nr_ctx, vid) == [vid |-> vid, valid |-> ctxid < nr_ctx]

\* A __context_cfg_valid_vid that does not keep its result: NUM_CONTEXT is
\* read on every call.
context_cfg_valid_vid_uncached(d, dd, vid_bmap, num_ctx) ==
  LET a == ctx_alloc(vid_bmap, 0, num_ctx,
                     [i \in 0 .. (NR_CTX_IDS - 1) |-> 0])
      res == [i \in 0 .. (NR_CTX_IDS - 1) |->
                CTX_CFG_ENTRY(i, a.ctx, a.ctx_vid[i])]
  IN [res |-> res,
      data |-> [dd EXCEPT !.context_cfg_valid_vid = res],
      tr |-> << R(S2mpu(d), "NUM_CONTEXT") >>]

\* __context_cfg_valid_vid(dev, vid_bmap), NUM_CONTEXT reading num_ctx:
\* the result, the device data afterwards and the MMIO reads.
context_cfg_valid_vid(d, dd, vid_bmap, num_ctx) ==
  IF dd.context_cfg_valid_vid # CtxCfgZero
    THEN [res |-> dd.context_cfg_valid_vid, data |-> dd, tr |-> << >>]
    ELSE LET a == ctx_alloc(vid_bmap, 0, num_ctx,
                            [i \in 0 .. (NR_CTX_IDS - 1) |-> 0])
             res == [i \in 0 .. (NR_CTX_IDS - 1) |->
                       CTX_CFG_ENTRY(i, a.ctx, a.ctx_vid[i])]
         IN [res |-> res,
             data |-> [dd EXCEPT !.context_cfg_valid_vid = res],
             tr |-> << R(S2mpu(d), "NUM_CONTEXT") >>]

\* An __initialize_v2 that computes the context configuration and does not
\* write it.
initialize_v2_no_write(d, dd, num_ctx) ==
  LET c == context_cfg_valid_vid(d, dd, ALL_VIDS_BITMAP, num_ctx)
  IN IF c.res = CtxCfgZero
       THEN [ret |-> "-EINVAL", data |-> c.data, tr |-> c.tr]
       ELSE [ret |-> "0", data |-> c.data, tr |-> c.tr]

\* An __initialize_v2 that writes the context configuration before it
\* tests it.
initialize_v2_write_first(d, dd, num_ctx) ==
  LET c == context_cfg_valid_vid(d, dd, ALL_VIDS_BITMAP, num_ctx)
      tr == c.tr \o << W(S2mpu(d), "CONTEXT_CFG_VALID_VID", 0, c.res) >>
  IN IF c.res = CtxCfgZero
       THEN [ret |-> "-EINVAL", data |-> c.data, tr |-> tr]
       ELSE [ret |-> "0", data |-> c.data, tr |-> tr]

\* __initialize_v2(dev): the return value, the data and the MMIO accesses.
initialize_v2(d, dd, num_ctx) ==
  LET c == context_cfg_valid_vid(d, dd, ALL_VIDS_BITMAP, num_ctx)
  IN IF c.res = CtxCfgZero
       THEN [ret |-> "-EINVAL", data |-> c.data, tr |-> c.tr]
       ELSE [ret |-> "0", data |-> c.data,
             tr |-> c.tr \o << W(S2mpu(d), "CONTEXT_CFG_VALID_VID", 0, c.res) >>]

\* __initialize(dev), VERSION reading ver
initialize(d, dd, ver, num_ctx) ==
  LET rd == dd.version = VersionZero
      d1 == IF rd THEN [dd EXCEPT !.version = ver] ELSE dd
      t1 == IF rd THEN << R(S2mpu(d), "VERSION") >> ELSE << >>
  IN IF VersionCheck(d1.version) = "V1"
       THEN [ret |-> "0", data |-> d1, tr |-> t1]
     ELSE IF VersionCheck(d1.version) = "V2"
       THEN LET r == initialize_v2(d, d1, num_ctx)
            IN [ret |-> r.ret, data |-> r.data, tr |-> t1 \o r.tr]
     ELSE [ret |-> "-EINVAL", data |-> d1, tr |-> t1]

\* A __set_control_regs that leaves CTRL0.ENABLE clear.
set_control_regs_no_enable(d, dd) ==
  LET ctrl0 == {"INTERRUPT_ENABLE"}
                 \cup (IF is_version(dd, "V2") THEN {"FAULT_RESP_TYPE_DECERR"}
                                                 ELSE {"FAULT_RESP_TYPE_SLVERR"})
  IN << W(S2mpu(d), "INTERRUPT_ENABLE_PER_VID_SET", 0, ALL_VIDS_BITMAP),
        W(S2mpu(d), "CFG", 0, 0),
        W(S2mpu(d), "CTRL1", 0, 0),
        W(S2mpu(d), "CTRL0", 0, ctrl0) >>

\* __set_control_regs(dev)
set_control_regs(d, dd) ==
  LET ctrl0 == {"ENABLE", "INTERRUPT_ENABLE"}
                 \cup (IF is_version(dd, "V2") THEN {"FAULT_RESP_TYPE_DECERR"}
                                                 ELSE {"FAULT_RESP_TYPE_SLVERR"})
  IN << W(S2mpu(d), "INTERRUPT_ENABLE_PER_VID_SET", 0, ALL_VIDS_BITMAP),
        W(S2mpu(d), "CFG", 0, 0),
        W(S2mpu(d), "CTRL1", 0, 0),
        W(S2mpu(d), "CTRL0", 0, ctrl0) >>

\* __set_control_regs_v9(dev)
set_control_regs_v9(d, dd) ==
  << W(S2mpu(d), "V9_CTRL_ERR_RESP_T_PER_VID_SET", 0, ALL_VIDS_BITMAP),
     W(S2mpu(d), "INTERRUPT_ENABLE_PER_VID_SET", 0, ALL_VIDS_BITMAP),
     W(S2mpu(d), "CTRL0", 0, {}),
     W(S2mpu(d), "V9_CTRL_PROT_EN_PER_VID_SET", 0, ALL_VIDS_BITMAP),
     W(S2mpu(d), "V9_CFG_MPTW_ATTRIBUTE", 0, 0) >>

\* reg_ops->init(dev)
reg_ops_init(ops, d, dd, ver, num_ctx) ==
  IF ops = "ops_v9" THEN initialize_v2(d, dd, num_ctx)
                    ELSE initialize(d, dd, ver, num_ctx)

\* reg_ops->set_control_regs(dev)
reg_ops_set_control_regs(ops, d, dd) ==
  IF ops = "ops_v9" THEN set_control_regs_v9(d, dd) ELSE set_control_regs(d, dd)

(* ----------------------- the invalidation engine ---------------------- *)

\* Which SYNC_COMP read of a child is the first to show COMPLETE, counted
\* from the one in __invalidation_barrier_complete (0: none ever does).
SyncFirstReads == {0, 1, 2}

\* The device-busy waits: how many STATUS reads show both bits of the mask,
\* and the read that ends the wait (not both bits).
StatusWaits ==
  { [busy |-> 0, st |-> {}] }
    \cup { [busy |-> b, st |-> {"BUSY"}] : b \in 1 .. MaxBusyPolls }

\* __sync_cmd_start(sync)
sync_cmd_start(sync) == << W(sync, "SYNC_CMD", 0, "SYNC") >>

\* __wait_until(addr, mask, max_attempts) on a child's SYNC_COMP, `done` of
\* its reads being over: the result and the number of reads.
wait_until(first, done, max_attempts) ==
  LET ok == first > done /\ first <= done + max_attempts
  IN [ok |-> ok, n |-> IF ok THEN first - done ELSE max_attempts]

\* The loop of __invalidation_barrier_slow(sync) from its i-th round on.
RECURSIVE barrier_slow_from(_, _, _, _, _)
barrier_slow_from(sync, first, i, timeout, done) ==
  IF i >= SYNC_MAX_RETRIES
    THEN << >>
    ELSE LET w == wait_until(first, done, timeout)
         IN sync_cmd_start(sync) \o << P(sync, "SYNC_COMP", w.n, w.ok) >>
              \o (IF w.ok THEN << >>
                  ELSE barrier_slow_from(sync, first, i + 1,
                                         timeout * SYNC_TIMEOUT_MULTIPLIER, done + w.n))

\* __invalidation_barrier_slow(sync)
invalidation_barrier_slow(sync, first) ==
  barrier_slow_from(sync, first, 0, SYNC_TIMEOUT, 1)

\* __invalidation_barrier_init(dev)
RECURSIVE barrier_init_from(_, _)
barrier_init_from(d, c) ==
  IF c > NrChildrenOf(d) THEN << >>
  ELSE sync_cmd_start(Sync(d, c)) \o barrier_init_from(d, c + 1)

invalidation_barrier_init(d) == barrier_init_from(d, 1)

\* __wait_while(addr, mask) on STATUS: `busy` reads show both bits of the
\* mask, the next one shows st and ends the loop.
wait_while(dev, busy, st) == << P(dev, "STATUS", busy + 1, st) >>

\* The loop over the children of __invalidation_barrier_complete(dev).
RECURSIVE barrier_children_from(_, _, _)
barrier_children_from(d, c, firsts) ==
  IF c > NrChildrenOf(d) THEN << >>
  ELSE << P(Sync(d, c), "SYNC_COMP", 1, firsts[c] = 1) >>
         \o (IF firsts[c] = 1 THEN << >>
             ELSE invalidation_barrier_slow(Sync(d, c), firsts[c]))
         \o barrier_children_from(d, c + 1, firsts)

\* __invalidation_barrier_complete(dev)
invalidation_barrier_complete(d, dd, firsts, busy, st) ==
  barrier_children_from(d, 1, firsts)
    \o (IF is_version(dd, "V2") \/ is_version(dd, "V9")
          THEN wait_while(S2mpu(d), busy, st)
          ELSE << >>)

\* __all_invalidation(dev)
all_invalidation(d, dd, firsts, busy, st) ==
  << W(S2mpu(d), "ALL_INVALIDATION", 0, "INVALIDATE") >>
    \o invalidation_barrier_init(d)
    \o invalidation_barrier_complete(d, dd, firsts, busy, st)

\* __range_invalidation_init(dev, first_byte, last_byte)
range_invalidation_init(d, first_byte, last_byte) ==
  LET start_ppn == first_byte \div PpnSize
      end_ppn == last_byte \div PpnSize
  IN << W(S2mpu(d), "RANGE_INVALIDATION_START_PPN", 0, start_ppn),
        W(S2mpu(d), "RANGE_INVALIDATION_END_PPN", 0, end_ppn),
        W(S2mpu(d), "RANGE_INVALIDATION", 0, "INVALIDATE") >>
       \o invalidation_barrier_init(d)

(* --------------------------- bring-up --------------------------------- *)

\* An initialize_with_prot that does not set the control registers.
initialize_with_prot_no_ctrl(d, prot, ver, num_ctx, firsts, busy, st) ==
  LET r == reg_ops_init(reg_ops, d, data[d], ver, num_ctx)
  IN IF r.ret # "0"
       THEN r
       ELSE [ret |-> "0", data |-> r.data,
             tr |-> r.tr \o init_with_prot(S2mpu(d), prot)
                      \o all_invalidation(d, r.data, firsts, busy, st)]

\* initialize_with_prot(dev, prot): return value, data and MMIO accesses.
initialize_with_prot(d, prot, ver, num_ctx, firsts, busy, st) ==
  LET r == reg_ops_init(reg_ops, d, data[d], ver, num_ctx)
  IN IF r.ret # "0"
       THEN r
       ELSE [ret |-> "0", data |-> r.data,
             tr |-> r.tr \o init_with_prot(S2mpu(d), prot)
                      \o all_invalidation(d, r.data, firsts, busy, st)
                      \o reg_ops_set_control_regs(reg_ops, d, r.data)]

\* An initialize_with_mpt that enables the device before it invalidates.
initialize_with_mpt_ctrl_first(d, mpt, ver, num_ctx, firsts, busy, st) ==
  LET r == reg_ops_init(reg_ops, d, data[d], ver, num_ctx)
  IN IF r.ret # "0"
       THEN r
       ELSE [ret |-> "0", data |-> r.data,
             tr |-> r.tr \o init_with_mpt(S2mpu(d), mpt)
                      \o reg_ops_set_control_regs(reg_ops, d, r.data)
                      \o all_invalidation(d, r.data, firsts, busy, st)]

\* initialize_with_mpt(dev, mpt)
initialize_with_mpt(d, mpt, ver, num_ctx, firsts, busy, st) ==
  LET r == reg_ops_init(reg_ops, d, data[d], ver, num_ctx)
  IN IF r.ret # "0"
       THEN r
       ELSE [ret |-> "0", data |-> r.data,
             tr |-> r.tr \o init_with_mpt(S2mpu(d), mpt)
                      \o all_invalidation(d, r.data, firsts, busy, st)
                      \o reg_ops_set_control_regs(reg_ops, d, r.data)]

(* --------------------------- identity map ----------------------------- *)

\* An __mpt_idmap_prepare that leaves out the last SMPT entry of the range.
mpt_idmap_prepare_short(mpt, first_byte, last_byte, prot) ==
  IF last_byte - SMPT_GRAN < first_byte THEN mpt
  ELSE prepare_range(mpt, first_byte, last_byte - SMPT_GRAN, prot)

\* __mpt_idmap_prepare(mpt, first_byte, last_byte, prot)
mpt_idmap_prepare(mpt, first_byte, last_byte, prot) ==
  prepare_range(mpt, first_byte, last_byte, prot)

\* An __mpt_idmap_apply that stops at the first region of the range.
mpt_idmap_apply_first_gb(d, mpt, first_byte, last_byte) ==
  LET first_gb == first_byte \div SZ_1G
  IN apply_range(S2mpu(d), mpt, first_gb, first_gb)
       \o range_invalidation_init(d, first_byte, last_byte)

\* __mpt_idmap_apply(dev, mpt, first_byte, last_byte)
mpt_idmap_apply(d, mpt, first_byte, last_byte) ==
  LET first_gb == first_byte \div SZ_1G
      last_gb == last_byte \div SZ_1G
  IN apply_range(S2mpu(d), mpt, first_gb, last_gb)
       \o range_invalidation_init(d, first_byte, last_byte)

\* __mpt_idmap_complete(dev, mpt)
mpt_idmap_complete(d, dd, firsts, busy, st) ==
  invalidation_barrier_complete(d, dd, firsts, busy, st)

(* ------------------------------ s2mpu_init ---------------------------- *)

S2MPU_VERSION_1 == [check |-> "V1", rev |-> 0]

S2MPU_VERSION_2 == [check |-> "V2", rev |-> 0]

S2MPU_VERSION_9 == [check |-> "V9", rev |-> 0]

\* The claiming loop of s2mpu_init from region gb on: aligned[gb] says
\* whether the host's SMPT buffer is aligned to smpt_size, donate_ok[gb]
\* whether __pkvm_host_donate_hyp accepts it.
RECURSIVE init_claim_from(_, _, _, _, _, _)
init_claim_from(gb, mpt, pgs, tr, aligned, donate_ok) ==
  IF gb >= NR_GIGABYTES
    THEN [ret |-> "0", mpt |-> mpt, pages |-> pgs, tr |-> tr]
  ELSE IF ~aligned[gb]
    THEN [ret |-> "-EINVAL", mpt |-> mpt, pages |-> pgs, tr |-> tr]
  ELSE IF ~donate_ok[gb] \/ pgs[gb] # "host"
    THEN [ret |-> "-EPERM", mpt |-> mpt, pages |-> pgs,
          tr |-> Append(tr, D("__pkvm_host_donate_hyp", gb, FALSE))]
  ELSE init_claim_from(gb + 1,
                       [mpt EXCEPT ![gb] = FmptInit(gb)],
                       [pgs EXCEPT ![gb] = "hyp"],
                       Append(tr, D("__pkvm_host_donate_hyp", gb, TRUE)),
                       aligned, donate_ok)

\* A rollback that hands nothing back.
init_rollback_none(gb, mpt, pgs, tr) ==
  [pages |-> pgs, tr |-> tr]

\* The loop of s2mpu_init that returns the claimed buffers, from region gb on.
RECURSIVE init_rollback_from(_, _, _, _)
init_rollback_from(gb, mpt, pgs, tr) ==
  IF gb >= NR_GIGABYTES \/ mpt[gb].smpt = 0
    THEN [pages |-> pgs, tr |-> tr]
    ELSE init_rollback_from(gb + 1, mpt, [pgs EXCEPT ![gb] = "host"],
                            Append(tr, D("__pkvm_hyp_donate_host", gb, TRUE)))

\* s2mpu_init(data, size): the state of the driver when it returns.
init_result(size_ok, version, found, aligned, donate_ok) ==
  LET same == [ret |-> "0", reg_ops |-> reg_ops, mpt_ops |-> mpt_ops,
               mpt |-> host_mpt, pages |-> pages, tr |-> << >>]
      ops == IF version = S2MPU_VERSION_1 \/ version = S2MPU_VERSION_2
               THEN "ops_v1_v2"
               ELSE IF version = S2MPU_VERSION_9 THEN "ops_v9" ELSE "NULL"
      c == init_claim_from(0, host_mpt, pages, << >>, aligned, donate_ok)
      b == init_rollback_from(0, c.mpt, c.pages, c.tr)
  IN IF ~size_ok THEN [same EXCEPT !.ret = "-EINVAL"]
     ELSE IF ops = "NULL" THEN [same EXCEPT !.ret = "-ENODEV"]
     ELSE IF ~found
       THEN [same EXCEPT !.ret = "-EINVAL", !.reg_ops = ops, !.mpt_ops = "NULL"]
     ELSE IF c.ret = "0"
       THEN [ret |-> "0", reg_ops |-> ops, mpt_ops |-> "ops",
             mpt |-> c.mpt, pages |-> c.pages, tr |-> c.tr]
     ELSE [ret |-> c.ret, reg_ops |-> ops, mpt_ops |-> "ops",
           mpt |-> MptZero, pages |-> b.pages, tr |-> b.tr]

NoArgs == [dev |-> 0, start |-> 0, end |-> 0, prot |-> {}]

Call(op, ret, args) ==
  [op |-> op, ret |-> ret, dev |-> args.dev, start |-> args.start,
   end |-> args.end, prot |-> args.prot]

\* No operation is running and the last one's result has been consumed.
Idle == call.op = "none"

s2mpu_init(size_ok, version, found, aligned, donate_ok) ==
  /\ Idle
  /\ drv = "uninit"
  /\ LET r == init_result(size_ok, version, found, aligned, donate_ok)
     IN /\ drv' = IF r.ret = "0" THEN "ready" ELSE "uninit"
        /\ reg_ops' = r.reg_ops
        /\ mpt_ops' = r.mpt_ops
        /\ host_mpt' = r.mpt
        /\ pages' = r.pages
        /\ trace' = r.tr
        /\ call' = Call("init", r.ret, NoArgs)
  /\ UNCHANGED << data, hw, life, dabt, bar >>

(* ------------------------------ device ops ---------------------------- *)

\* What a bring-up of device d leaves behind; the device's lifecycle state
\* changes when the operation succeeds.
BringUp(op, d, r, to) ==
  /\ data' = [data EXCEPT ![d] = r.data]
  /\ hw' = [hw EXCEPT ![d] = HwApply(hw[d], S2mpu(d), r.tr, 1)]
  /\ life' = [life EXCEPT ![d] = IF r.ret = "0" THEN to ELSE life[d]]
  /\ trace' = r.tr
  /\ call' = Call(op, r.ret, [NoArgs EXCEPT !.dev = d])
  /\ UNCHANGED << drv, reg_ops, mpt_ops, host_mpt, pages, dabt, bar >>

s2mpu_resume(d, ver, num_ctx, firsts, busy, st) ==
  /\ Idle
  /\ drv = "ready"
  /\ BringUp("resume", d,
             initialize_with_mpt(d, host_mpt, ver, num_ctx, firsts, busy, st),
             "Active")

s2mpu_suspend(d, ver, num_ctx, firsts, busy, st) ==
  /\ Idle
  /\ drv = "ready"
  /\ BringUp("suspend", d,
             initialize_with_prot(d, MPT_PROT_NONE, ver, num_ctx, firsts, busy, st),
             "Reset")

\* host_mpt after s2mpu_host_stage2_idmap_prepare(start, end, prot)
idmap_prepare_result(mpt, start, end, prot) ==
  LET v == to_valid_range(start, end)
  IN IF ~v.ok THEN mpt
     ELSE mpt_idmap_prepare(mpt, v.start, v.end - 1, prot_to_mpt(prot))

\* The MMIO accesses of s2mpu_host_stage2_idmap_apply(dev, start, end)
idmap_apply_trace(d, mpt, start, end) ==
  LET v == to_valid_range(start, end)
  IN IF ~v.ok THEN << >>
     ELSE mpt_idmap_apply(d, mpt, v.start, v.end - 1)

s2mpu_host_stage2_idmap_prepare(start, end, prot) ==
  /\ Idle
  /\ drv = "ready"
  /\ host_mpt' = idmap_prepare_result(host_mpt, start, end, prot)
  /\ trace' = << >>
  /\ call' = Call("prepare", "void",
                  [NoArgs EXCEPT !.start = start, !.end = end, !.prot = prot])
  /\ UNCHANGED << drv, reg_ops, mpt_ops, pages, data, hw, life, dabt, bar >>

s2mpu_host_stage2_idmap_apply(d, start, end) ==
  /\ Idle
  /\ drv = "ready"
  /\ LET tr == idmap_apply_trace(d, host_mpt, start, end)
     IN /\ hw' = [hw EXCEPT ![d] = HwApply(hw[d], S2mpu(d), tr, 1)]
        /\ trace' = tr
  /\ call' = Call("apply", "void",
                  [NoArgs EXCEPT !.dev = d, !.start = start, !.end = end])
  /\ UNCHANGED << drv, reg_ops, mpt_ops, host_mpt, pages, data, life, dabt,
                  bar >>

s2mpu_host_stage2_idmap_complete(d, firsts, busy, st) ==
  /\ Idle
  /\ drv = "ready"
  /\ trace' = mpt_idmap_complete(d, data[d], firsts, busy, st)
  /\ call' = Call("complete", "void", [NoArgs EXCEPT !.dev = d])
  /\ UNCHANGED << drv, reg_ops, mpt_ops, host_mpt, pages, data, hw, life,
                  dabt, bar >>

\* The accesses of apply on the devices d .. NrDevs, in turn.
RECURSIVE idmap_apply_all(_, _, _, _)
idmap_apply_all(d, mpt, start, end) ==
  IF d > NrDevs THEN << >>
  ELSE idmap_apply_trace(d, mpt, start, end) \o idmap_apply_all(d + 1, mpt, start, end)

\* The accesses of complete on the devices d .. NrDevs, in turn.
RECURSIVE idmap_complete_all(_, _, _, _)
idmap_complete_all(d, firsts, busy, st) ==
  IF d > NrDevs THEN << >>
  ELSE mpt_idmap_complete(d, data[d], [c \in Children(d) |-> firsts], busy, st)
         \o idmap_complete_all(d + 1, firsts, busy, st)

\* One update of the host's identity map as the IOMMU framework drives it:
\* prepare, then apply on every device, then complete on every device.
host_stage2_idmap(start, end, prot, firsts, busy, st) ==
  /\ Idle
  /\ drv = "ready"
  /\ LET mpt == idmap_prepare_result(host_mpt, start, end, prot)
         tr == idmap_apply_all(1, mpt, start, end)
                 \o idmap_complete_all(1, firsts, busy, st)
     IN /\ host_mpt' = mpt
        /\ hw' = [d \in Devs |-> HwApply(hw[d], S2mpu(d), tr, 1)]
        /\ trace' = tr
  /\ call' = Call("idmap", "void",
                  [NoArgs EXCEPT !.start = start, !.end = end, !.prot = prot])
  /\ UNCHANGED << drv, reg_ops, mpt_ops, pages, data, life, dabt, bar >>

\* Two updates of the same range one after the other, as the framework
\* drives them: prepare with read-write, apply and complete on every device,
\* then the same with no access.
host_stage2_idmap_rw_none(start, end, firsts, busy, st) ==
  /\ Idle
  /\ drv = "ready"
  /\ LET rw == idmap_prepare_result(host_mpt, start, end, {"R", "W"})
         tr1 == idmap_apply_all(1, rw, start, end)
                  \o idmap_complete_all(1, firsts, busy, st)
         none == idmap_prepare_result(rw, start, end, {})
         tr2 == idmap_apply_all(1, none, start, end)
                  \o idmap_complete_all(1, firsts, busy, st)
     IN /\ host_mpt' = none
        /\ hw' = [d \in Devs |-> HwApply(hw[d], S2mpu(d), tr1 \o tr2, 1)]
        /\ trace' = tr1 \o tr2
  /\ call' = Call("idmap_rw_none", "void",
                  [NoArgs EXCEPT !.start = start, !.end = end])
  /\ UNCHANGED << drv, reg_ops, mpt_ops, pages, data, life, dabt, bar >>

(* ------------------- the barrier, one poll at a time ------------------ *)

(* The same bring-up and completion code with every read of SYNC_COMP and  *)
(* of STATUS a step of its own, so that what the hardware answers can      *)
(* change from one poll to the next.  bar holds the position in the code   *)
(* (pc) and the locals of the loops: child is the for_each_child cursor of *)
(* __invalidation_barrier_complete, i and timeout are the locals of        *)
(* __invalidation_barrier_slow, attempt is the i of __wait_until.  rounds, *)
(* done, status and spin record what happened: the polls after each        *)
(* re-issued SYNC_CMD of the child at hand, the outcome for each child     *)
(* already left, the last value read from STATUS and the parity of the     *)
(* number of STATUS reads.                                                 *)

BarNone ==
  [pc |-> "none", op |-> "none", dev |-> 0, child |-> 0, i |-> 0,
   timeout |-> 0, attempt |-> 0, rounds |-> << >>, done |-> << >>,
   status |-> {}, spin |-> 0]

STATUS_MASK == {"BUSY", "ON_INVALIDATING"}

StatusReads == SUBSET STATUS_MASK

\* A __wait_while that never sees its condition end.
wait_while_forever(val, mask) ==
  val \cap mask = val \cap mask

\* The loop condition of __wait_while: all bits of the mask are set.
wait_while_loops(val, mask) ==
  val \cap mask = mask

\* A retry loop that allows one re-issue too many.
barrier_slow_one_more(i) ==
  i < SYNC_MAX_RETRIES + 1

\* The loop condition of __invalidation_barrier_slow.
barrier_slow_retries(i) ==
  i < SYNC_MAX_RETRIES

\* The code reaches __invalidation_barrier_complete in operation op on
\* device d, having made the accesses tr.
BarStart(op, d, tr) ==
  /\ bar' = [BarNone EXCEPT !.pc = "children", !.op = op, !.dev = d,
                            !.child = 1]
  /\ hw' = [hw EXCEPT ![d] = HwApply(hw[d], S2mpu(d), tr, 1)]
  /\ trace' = tr
  /\ UNCHANGED << drv, reg_ops, mpt_ops, host_mpt, pages, life, call, dabt >>

\* s2mpu_resume up to the barrier: reg_ops->init, the MPT, ALL_INVALIDATION
\* and SYNC_CMD on every child.
resume_to_barrier(d, ver, num_ctx) ==
  /\ Idle /\ bar.pc = "none"
  /\ drv = "ready"
  /\ LET r == reg_ops_init(reg_ops, d, data[d], ver, num_ctx)
     IN /\ r.ret = "0"
        /\ data' = [data EXCEPT ![d] = r.data]
        /\ BarStart("resume", d,
                    r.tr \o init_with_mpt(S2mpu(d), host_mpt)
                      \o << W(S2mpu(d), "ALL_INVALIDATION", 0, "INVALIDATE") >>
                      \o invalidation_barrier_init(d))

\* s2mpu_suspend up to the barrier.
suspend_to_barrier(d, ver, num_ctx) ==
  /\ Idle /\ bar.pc = "none"
  /\ drv = "ready"
  /\ LET r == reg_ops_init(reg_ops, d, data[d], ver, num_ctx)
     IN /\ r.ret = "0"
        /\ data' = [data EXCEPT ![d] = r.data]
        /\ BarStart("suspend", d,
                    r.tr \o init_with_prot(S2mpu(d), MPT_PROT_NONE)
                      \o << W(S2mpu(d), "ALL_INVALIDATION", 0, "INVALIDATE") >>
                      \o invalidation_barrier_init(d))

\* s2mpu_host_stage2_idmap_complete up to the barrier: nothing comes
\* before it.
complete_to_barrier(d) ==
  /\ Idle /\ bar.pc = "none"
  /\ drv = "ready"
  /\ data' = data
  /\ BarStart("complete", d, << >>)

\* The for_each_child cursor moves past the child at hand, whose outcome
\* is recorded.
BarNextChild(b, complete) ==
  [b EXCEPT !.pc = "children", !.child = @ + 1, !.i = 0, !.timeout = 0,
            !.attempt = 0, !.rounds = << >>,
            !.done = Append(@, [complete |-> complete, rounds |-> b.rounds])]

BarStep(b) ==
  /\ bar' = b
  /\ UNCHANGED << drv, reg_ops, mpt_ops, host_mpt, pages, data, hw, life,
                  call, trace, dabt >>

\* __invalidation_barrier_complete reads the child's SYNC_COMP once;
\* without COMPLETE it enters __invalidation_barrier_slow.
barrier_complete_read(complete) ==
  /\ bar.pc = "children"
  /\ bar.child <= NrChildrenOf(bar.dev)
  /\ BarStep(IF complete THEN BarNextChild(bar, TRUE)
             ELSE [bar EXCEPT !.pc = "slow", !.i = 0,
                              !.timeout = SYNC_TIMEOUT])

\* One turn of the loop of __invalidation_barrier_slow: SYNC_CMD is issued
\* again and __wait_until starts polling.
barrier_slow_retry ==
  /\ bar.pc = "slow"
  /\ barrier_slow_retries(bar.i)
  /\ bar' = [bar EXCEPT !.pc = "wait_until", !.attempt = 0,
                        !.rounds = Append(@, 0)]
  /\ trace' = trace \o sync_cmd_start(Sync(bar.dev, bar.child))
  /\ UNCHANGED << drv, reg_ops, mpt_ops, host_mpt, pages, data, hw, life,
                  call, dabt >>

\* The loop of __invalidation_barrier_slow ends after SYNC_MAX_RETRIES
\* turns; the function returns nothing.
barrier_slow_give_up ==
  /\ bar.pc = "slow"
  /\ ~barrier_slow_retries(bar.i)
  /\ BarStep(BarNextChild(bar, FALSE))

\* One read of SYNC_COMP in __wait_until.
wait_until_read(complete) ==
  /\ bar.pc = "wait_until"
  /\ bar.attempt < bar.timeout
  /\ LET b == [bar EXCEPT !.rounds[Len(bar.rounds)] = @ + 1]
     IN BarStep(IF complete THEN BarNextChild(b, TRUE)
                ELSE [b EXCEPT !.attempt = @ + 1])

\* __wait_until returns false: the timeout is multiplied and the loop of
\* __invalidation_barrier_slow goes on.
wait_until_timeout ==
  /\ bar.pc = "wait_until"
  /\ bar.attempt >= bar.timeout
  /\ BarStep([bar EXCEPT !.pc = "slow", !.i = @ + 1,
                         !.timeout = @ * SYNC_TIMEOUT_MULTIPLIER])

\* A barrier that skips the STATUS wait when a child was given up.
barrier_children_done_if_complete ==
  /\ bar.pc = "children"
  /\ bar.child > NrChildrenOf(bar.dev)
  /\ BarStep([bar EXCEPT !.pc =
                IF /\ is_version(data[bar.dev], "V2")
                   /\ \A c \in DOMAIN bar.done : bar.done[c].complete
                  THEN "status" ELSE "done"])

\* After the last child: the STATUS wait on a device whose cached version
\* is v2 or v9, nothing otherwise.
barrier_children_done ==
  /\ bar.pc = "children"
  /\ bar.child > NrChildrenOf(bar.dev)
  /\ BarStep([bar EXCEPT !.pc =
                IF is_version(data[bar.dev], "V2") \/ is_version(data[bar.dev], "V9")
                  THEN "status" ELSE "done"])

\* One read of STATUS in __wait_while with the loop going on.
wait_while_busy(val) ==
  /\ bar.pc = "status"
  /\ wait_while_loops(val, STATUS_MASK)
  /\ BarStep([bar EXCEPT !.status = val, !.spin = 1 - @])

\* The read of STATUS that ends __wait_while.
wait_while_exit(val) ==
  /\ bar.pc = "status"
  /\ ~wait_while_loops(val, STATUS_MASK)
  /\ BarStep([bar EXCEPT !.status = val, !.spin = 1 - @, !.pc = "done"])

\* After the barrier resume and suspend set the control registers and
\* return 0.
bring_up_return ==
  /\ bar.pc = "done"
  /\ bar.op \in {"resume", "suspend"}
  /\ LET d == bar.dev
         tr == reg_ops_set_control_regs(reg_ops, d, data[d])
     IN /\ hw' = [hw EXCEPT ![d] = HwApply(hw[d], S2mpu(d), tr, 1)]
        /\ trace' = trace \o tr
        /\ life' = [life EXCEPT ![d] = IF bar.op = "resume" THEN "Active"
                                       ELSE "Reset"]
        /\ call' = Call(bar.op, "0", [NoArgs EXCEPT !.dev = d])
  /\ bar' = BarNone
  /\ UNCHANGED << drv, reg_ops, mpt_ops, host_mpt, pages, data, dabt >>

\* After the barrier s2mpu_host_stage2_idmap_complete returns.
complete_return ==
  /\ bar.pc = "done"
  /\ bar.op = "complete"
  /\ call' = Call("complete", "void", [NoArgs EXCEPT !.dev = bar.dev])
  /\ bar' = BarNone
  /\ UNCHANGED << drv, reg_ops, mpt_ops, host_mpt, pages, data, hw, life,
                  trace, dabt >>

(* ------------------------ host MMIO trap handler ---------------------- *)

\* A u32 is the set of its bits that are 1; & is intersection.
Bits == 0 .. 31

no_access == {}

read_write == Bits

\* The register masks of the headers (CFG_MASK, CTRL0_MASK, ...): some bits,
\* not all of them.  ALL_VIDS_BITMAP is its own value.
HeaderMask == Bits \ {31}

\* The values the host has in a register, or the device in an MMIO register.
Words == { {0, 8}, {8, 31} }

\* Indices of the host's general purpose registers (ESR_ELx_SRT).
Rds == {0, 1}

\* An offset into the device's MMIO window: a register and a byte within it.
Off(reg, byte) == [reg |-> reg, byte |-> byte]

\* The registers of every version that are named in the driver.
CommonRegs ==
  { "CFG", "INTERRUPT_CLEAR", "INFO", "FAULT_STATUS", "L1ENTRY_L2TABLE_ADDR",
    "L1ENTRY_ATTR", "FAULT_PA_LOW", "FAULT_PA_HIGH", "FAULT_INFO", "CTRL0",
    "CONTEXT_CFG_VALID_VID", "INTERRUPT_ENABLE_PER_VID_SET", "NUM_CONTEXT",
    "VERSION", "STATUS", "ALL_INVALIDATION", "RANGE_INVALIDATION",
    "RANGE_INVALIDATION_START_PPN", "RANGE_INVALIDATION_END_PPN" }

V1V2Regs ==
  { "CTRL1", "READ_MPTC", "READ_MPTC_TAG_PPN", "READ_MPTC_TAG_OTHERS",
    "READ_MPTC_DATA" }

V9Regs ==
  { "V9_CTRL_ERR_RESP_T_PER_VID_SET", "V9_CTRL_PROT_EN_PER_VID_SET",
    "V9_CFG_MPTW_ATTRIBUTE", "V9_READ_STLB", "V9_READ_STLB_TPN",
    "V9_READ_STLB_TAG_PPN", "V9_READ_STLB_TAG_OTHERS", "V9_READ_STLB_DATA",
    "V9_MPTC_INFO", "V9_READ_MPTC", "V9_READ_MPTC_TAG_PPN",
    "V9_READ_MPTC_TAG_OTHERS", "V9_READ_MPTC_DATA", "V9_PMMU_INFO",
    "V9_READ_PTLB", "V9_READ_PTLB_TAG", "V9_READ_PTLB_DATA_S1_EN_PPN_AP",
    "V9_READ_PTLB_DATA_S1_DIS_AP_LIST", "V9_PMMU_INDICATOR",
    "V9_SWALKER_INFO", "V9_PMMU_PTLB_INFO", "V9_STLB_INFO" }

DabtNone ==
  [off |-> Off("none", 0), is_write |-> FALSE, sas |-> 0, rd |-> 0,
   regs |-> [r \in Rds |-> {}], regs_out |-> [r \in Rds |-> {}]]

host_mmio_reg_access_mask_v9(off, is_write) ==
  LET read_only == IF is_write THEN no_access ELSE read_write
      write_only == IF is_write THEN read_write ELSE no_access
  IN IF off.byte = 0 /\ off.reg \in {"V9_CTRL_ERR_RESP_T_PER_VID_SET",
                                     "V9_CTRL_PROT_EN_PER_VID_SET"}
       THEN read_only \cap ALL_VIDS_BITMAP
     ELSE IF off.byte = 0 /\ off.reg \in {"V9_READ_STLB", "V9_READ_MPTC",
                                          "V9_READ_PTLB"}
       THEN write_only \cap HeaderMask
     ELSE IF off.byte = 0 /\ off.reg \in {"V9_READ_STLB_DATA",
                                          "V9_READ_MPTC_DATA",
                                          "V9_READ_PTLB_DATA_S1_DIS_AP_LIST"}
       THEN read_only
     ELSE IF off.byte = 0 /\ off.reg \in {"CTRL0", "V9_READ_STLB_TPN",
                                          "V9_READ_STLB_TAG_PPN",
                                          "V9_READ_STLB_TAG_OTHERS",
                                          "V9_MPTC_INFO",
                                          "V9_READ_MPTC_TAG_PPN",
                                          "V9_READ_MPTC_TAG_OTHERS",
                                          "V9_PMMU_INFO", "V9_READ_PTLB_TAG",
                                          "V9_READ_PTLB_DATA_S1_EN_PPN_AP",
                                          "V9_PMMU_INDICATOR",
                                          "V9_SWALKER_INFO"}
       THEN read_only \cap HeaderMask
     ELSE IF off.reg \in {"V9_PMMU_PTLB_INFO", "V9_STLB_INFO"}
       THEN read_only \cap HeaderMask
     ELSE no_access

host_mmio_reg_access_mask_v1_v2(off, is_write) ==
  LET read_only == IF is_write THEN no_access ELSE read_write
      write_only == IF is_write THEN read_write ELSE no_access
  IN IF off.byte = 0 /\ off.reg \in {"CTRL0", "CTRL1", "READ_MPTC_TAG_PPN",
                                     "READ_MPTC_TAG_OTHERS"}
       THEN read_only \cap HeaderMask
     ELSE IF off.byte = 0 /\ off.reg = "READ_MPTC"
       THEN write_only \cap HeaderMask
     ELSE IF off.byte = 0 /\ off.reg = "READ_MPTC_DATA"
       THEN read_only
     ELSE no_access

reg_ops_host_mmio_reg_access_mask(ops, off, is_write) ==
  IF ops = "ops_v9" THEN host_mmio_reg_access_mask_v9(off, is_write)
  ELSE host_mmio_reg_access_mask_v1_v2(off, is_write)

\* A host_mmio_reg_access_mask that lets the host start an invalidation.
host_mmio_reg_access_mask_inval(ops, off, is_write) ==
  LET read_only == IF is_write THEN no_access ELSE read_write
      write_only == IF is_write THEN read_write ELSE no_access
  IN IF off.byte = 0 /\ off.reg \in {"CFG", "INFO"}
       THEN read_only \cap HeaderMask
     ELSE IF off.byte = 0 /\ off.reg \in {"INTERRUPT_CLEAR", "ALL_INVALIDATION"}
       THEN write_only \cap ALL_VIDS_BITMAP
     ELSE IF off.byte = 0 /\ off.reg = "FAULT_STATUS"
       THEN read_only \cap ALL_VIDS_BITMAP
     ELSE IF off.reg \in {"L1ENTRY_L2TABLE_ADDR", "L1ENTRY_ATTR"}
       THEN read_only
     ELSE IF off.byte = 0 /\ off.reg \in {"FAULT_PA_LOW", "FAULT_PA_HIGH",
                                          "FAULT_INFO"}
       THEN read_only
     ELSE reg_ops_host_mmio_reg_access_mask(ops, off, is_write)

\* host_mmio_reg_access_mask(off, is_write), with reg_ops
host_mmio_reg_access_mask(ops, off, is_write) ==
  LET read_only == IF is_write THEN no_access ELSE read_write
      write_only == IF is_write THEN read_write ELSE no_access
  IN IF off.byte = 0 /\ off.reg \in {"CFG", "INFO"}
       THEN read_only \cap HeaderMask
     ELSE IF off.byte = 0 /\ off.reg = "INTERRUPT_CLEAR"
       THEN write_only \cap ALL_VIDS_BITMAP
     ELSE IF off.byte = 0 /\ off.reg = "FAULT_STATUS"
       THEN read_only \cap ALL_VIDS_BITMAP
     ELSE IF off.reg \in {"L1ENTRY_L2TABLE_ADDR", "L1ENTRY_ATTR"}
       THEN read_only
     ELSE IF off.byte = 0 /\ off.reg \in {"FAULT_PA_LOW", "FAULT_PA_HIGH",
                                          "FAULT_INFO"}
       THEN read_only
     ELSE reg_ops_host_mmio_reg_access_mask(ops, off, is_write)

\* A handler that does not check the alignment of the offset.
dabt_handler_unaligned(ops, d, off, is_write, sas, rd, regs, readval) ==
  LET len == 2 ^ sas
      mask == host_mmio_reg_access_mask(ops, off, is_write)
  IN IF len # 4 \/ mask = {}
       THEN [handled |-> FALSE, tr |-> << >>, regs |-> regs]
     ELSE IF is_write
       THEN [handled |-> TRUE,
             tr |-> << W(S2mpu(d), off.reg, 0, regs[rd] \cap mask) >>,
             regs |-> regs]
     ELSE [handled |-> TRUE,
           tr |-> << [R(S2mpu(d), off.reg) EXCEPT !.val = readval] >>,
           regs |-> [regs EXCEPT ![rd] = readval \cap mask]]

\* A handler that takes a store of a value with no bit of the mask for an
\* access it does not handle.
dabt_handler_value_check(ops, d, off, is_write, sas, rd, regs, readval) ==
  LET len == 2 ^ sas
      mask == host_mmio_reg_access_mask(ops, off, is_write)
  IN IF len # 4 \/ off.byte # 0
       THEN [handled |-> FALSE, tr |-> << >>, regs |-> regs]
     ELSE IF mask = {} \/ (is_write /\ regs[rd] \cap mask = {})
       THEN [handled |-> FALSE, tr |-> << >>, regs |-> regs]
     ELSE IF is_write
       THEN [handled |-> TRUE,
             tr |-> << W(S2mpu(d), off.reg, 0, regs[rd] \cap mask) >>,
             regs |-> regs]
     ELSE [handled |-> TRUE,
           tr |-> << [R(S2mpu(d), off.reg) EXCEPT !.val = readval] >>,
           regs |-> [regs EXCEPT ![rd] = readval \cap mask]]

\* The handler on device d: whether the trap was handled, the MMIO access
\* made and the host's registers afterwards.  sas is ESR_ELx_SAS, readval
\* what the device returns if it is read.
dabt_handler(ops, d, off, is_write, sas, rd, regs, readval) ==
  LET len == 2 ^ sas
      mask == host_mmio_reg_access_mask(ops, off, is_write)
  IN IF len # 4 \/ off.byte # 0
       THEN [handled |-> FALSE, tr |-> << >>, regs |-> regs]
     ELSE IF mask = {}
       THEN [handled |-> FALSE, tr |-> << >>, regs |-> regs]
     ELSE IF is_write
       THEN [handled |-> TRUE,
             tr |-> << W(S2mpu(d), off.reg, 0, regs[rd] \cap mask) >>,
             regs |-> regs]
     ELSE [handled |-> TRUE,
           tr |-> << [R(S2mpu(d), off.reg) EXCEPT !.val = readval] >>,
           regs |-> [regs EXCEPT ![rd] = readval \cap mask]]

s2mpu_host_dabt_handler(d, off, is_write, sas, rd, regs, readval) ==
  /\ Idle
  /\ drv = "ready"
  /\ LET r == dabt_handler(reg_ops, d, off, is_write, sas, rd, regs, readval)
     IN /\ hw' = [hw EXCEPT ![d] = HwApply(hw[d], S2mpu(d), r.tr, 1)]
        /\ trace' = r.tr
        /\ dabt' = [off |-> off, is_write |-> is_write, sas |-> sas,
                    rd |-> rd, regs |-> regs, regs_out |-> r.regs]
        /\ call' = Call("dabt", IF r.handled THEN "true" ELSE "false",
                        [NoArgs EXCEPT !.dev = d])
  /\ UNCHANGED << drv, reg_ops, mpt_ops, host_mpt, pages, data, life, bar >>

\* The caller takes the operation's result; the next operation may start.
op_return ==
  /\ ~Idle
  /\ call' = Call("none", "void", NoArgs)
  /\ trace' = << >>
  /\ dabt' = DabtNone
  /\ UNCHANGED << drv, reg_ops, mpt_ops, host_mpt, pages, data, hw, life, bar >>

(* --------------------------- specification ---------------------------- *)

Addrs == 0 .. (PA_MAX + AddrSlack)

\* The values VERSION can show when device d's bring-up reads it.
VersionInputs(d) ==
  IF reg_ops = "ops_v1_v2" /\ data[d].version = VersionZero
    THEN VersionReads ELSE {VersionZero}

\* The values NUM_CONTEXT can show when device d's bring-up reads it.
NumContextInputs(d) ==
  IF data[d].context_cfg_valid_vid = CtxCfgZero THEN NumContextReads ELSE {0}

\* The ranges the host passes in the lifecycle specification: everything,
\* part of a region from an unaligned start, a range across two regions, a
\* region with the end past PA_MAX, and two that canonicalize to nothing.
RangeInputs ==
  { << 0, PA_MAX >>, << 1, SMPT_GRAN >>, << SZ_1G - 1, SZ_1G + 1 >>,
    << PA_MAX - SZ_1G, PA_MAX + AddrSlack >>, << SMPT_GRAN, SMPT_GRAN >>,
    << PA_MAX, PA_MAX + AddrSlack >> }

Init ==
  /\ drv = "uninit"
  /\ reg_ops = "NULL"
  /\ mpt_ops = "NULL"
  /\ host_mpt = MptZero
  /\ pages = [gb \in Gigabytes |-> "host"]
  /\ data = [d \in Devs |-> [version |-> VersionZero,
                             context_cfg_valid_vid |-> CtxCfgZero]]
  /\ hw = [d \in Devs |-> HwReset]
  /\ life = [d \in Devs |-> "Reset"]
  /\ call = Call("none", "void", NoArgs)
  /\ trace = << >>
  /\ dabt = DabtNone
  /\ bar = BarNone

Next ==
  \/ /\ Idle
     /\ \E size_ok \in BOOLEAN, version \in VersionReads, found \in BOOLEAN,
           aligned \in [Gigabytes -> BOOLEAN], donate_ok \in [Gigabytes -> BOOLEAN] :
          s2mpu_init(size_ok, version, found, aligned, donate_ok)
  \/ /\ Idle
     /\ \E d \in Devs, w \in StatusWaits :
          \E ver \in VersionInputs(d), num_ctx \in NumContextInputs(d),
             firsts \in [Children(d) -> SyncFirstReads] :
            s2mpu_resume(d, ver, num_ctx, firsts, w.busy, w.st)
  \/ /\ Idle
     /\ \E d \in Devs, w \in StatusWaits :
          \E ver \in VersionInputs(d), num_ctx \in NumContextInputs(d),
             firsts \in [Children(d) -> SyncFirstReads] :
            s2mpu_suspend(d, ver, num_ctx, firsts, w.busy, w.st)
  \/ /\ Idle
     /\ \E r \in RangeInputs, prot \in KvmProts :
          s2mpu_host_stage2_idmap_prepare(r[1], r[2], prot)
  \/ /\ Idle
     /\ \E d \in Devs, r \in RangeInputs :
          s2mpu_host_stage2_idmap_apply(d, r[1], r[2])
  \/ /\ Idle
     /\ \E d \in Devs, w \in StatusWaits :
          \E firsts \in [Children(d) -> SyncFirstReads] :
            s2mpu_host_stage2_idmap_complete(d, firsts, w.busy, w.st)
  \/ /\ Idle
     /\ \E r \in RangeInputs, prot \in KvmProts :
          host_stage2_idmap(r[1], r[2], prot, 1, 0, {})
  \/ op_return

Spec == Init /\ [][Next]_vars

(* The range specification: the driver is initialised, the devices are    *)
(* brought up by well-behaved v2 hardware, and the host passes every range *)
(* over Addrs to prepare and apply.                                        *)

AllTrue == [gb \in Gigabytes |-> TRUE]

NextRange ==
  \/ s2mpu_init(TRUE, S2MPU_VERSION_2, TRUE, AllTrue, AllTrue)
  \/ /\ Idle
     /\ \E d \in Devs :
          s2mpu_resume(d, S2MPU_VERSION_2, NR_CTX_IDS,
                       [c \in Children(d) |-> 1], 0, {})
  \/ /\ Idle
     /\ \E start \in Addrs, end \in Addrs, prot \in KvmProts :
          s2mpu_host_stage2_idmap_prepare(start, end, prot)
  \/ /\ Idle
     /\ \E d \in Devs, start \in Addrs, end \in Addrs :
          s2mpu_host_stage2_idmap_apply(d, start, end)
  \/ op_return

SpecRange == Init /\ [][NextRange]_vars

(* The trap specification: the driver is initialised for any of the       *)
(* three versions, the devices are resumed and suspended by well-behaved  *)
(* hardware, and the host traps on any offset with any ESR, any register  *)
(* values and any device register contents.                               *)

SasValues == 0 .. 3

Offsets ==
  { Off(reg, byte) : reg \in CommonRegs \cup V1V2Regs \cup V9Regs \cup {"UNMAPPED"},
                     byte \in {0, 1} }

NextDabt ==
  \/ /\ Idle
     /\ \E version \in {S2MPU_VERSION_1, S2MPU_VERSION_2, S2MPU_VERSION_9} :
          s2mpu_init(TRUE, version, TRUE, AllTrue, AllTrue)
  \/ /\ Idle
     /\ \E d \in Devs, ver \in {S2MPU_VERSION_1, S2MPU_VERSION_2} :
          s2mpu_resume(d, ver, NR_CTX_IDS,
                       [c \in Children(d) |-> 1], 0, {})
  \/ /\ Idle
     /\ \E d \in Devs, ver \in {S2MPU_VERSION_1, S2MPU_VERSION_2} :
          s2mpu_suspend(d, ver, NR_CTX_IDS,
                        [c \in Children(d) |-> 1], 0, {})
  \/ /\ Idle
     /\ \E d \in Devs, off \in Offsets, is_write \in BOOLEAN, sas \in SasValues,
           rd \in Rds, regs \in [Rds -> Words], readval \in Words :
          s2mpu_host_dabt_handler(d, off, is_write, sas, rd, regs, readval)
  \/ op_return

SpecDabt == Init /\ [][NextDabt]_vars

(* The round-trip specification: the driver is initialised, the devices   *)
(* are resumed, the host changes sampled ranges, and grants and then        *)
(* revokes access to every range over Addrs.                                *)

NextRoundTrip ==
  \/ s2mpu_init(TRUE, S2MPU_VERSION_2, TRUE, AllTrue, AllTrue)
  \/ /\ Idle
     /\ \E d \in Devs :
          s2mpu_resume(d, S2MPU_VERSION_2, NR_CTX_IDS,
                       [c \in Children(d) |-> 1], 0, {})
  \/ /\ Idle
     /\ \E r \in RangeInputs, prot \in KvmProts :
          s2mpu_host_stage2_idmap_prepare(r[1], r[2], prot)
  \/ /\ Idle
     /\ \E start \in Addrs, end \in Addrs :
          host_stage2_idmap_rw_none(start, end, 1, 0, {})
  \/ op_return

SpecRoundTrip == Init /\ [][NextRoundTrip]_vars

(* The barrier specification: the driver is initialised for a v1, v2 or   *)
(* v9 device and the three operations that wait for an invalidation run    *)
(* poll by poll, the hardware free to answer each poll as it likes.        *)

BarrierVersions == {S2MPU_VERSION_1, S2MPU_VERSION_2, S2MPU_VERSION_9}

BarrierBegin ==
  \/ /\ Idle
     /\ \E d \in Devs :
          \E ver \in VersionInputs(d) :
            resume_to_barrier(d, ver, NR_CTX_IDS - 1)
  \/ /\ Idle
     /\ \E d \in Devs :
          \E ver \in VersionInputs(d) :
            suspend_to_barrier(d, ver, NR_CTX_IDS - 1)
  \/ /\ Idle
     /\ \E d \in Devs : complete_to_barrier(d)
  \/ /\ Idle /\ bar.pc = "none"
     /\ \E d \in Devs :
          \E ver \in VersionInputs(d), num_ctx \in NumContextInputs(d) :
            /\ reg_ops_init(reg_ops, d, data[d], ver, num_ctx).ret # "0"
            /\ s2mpu_resume(d, ver, num_ctx, [c \in Children(d) |-> 1], 0, {})

\* The steps the code takes once it is in the barrier.
BarrierRun ==
  \/ \E complete \in BOOLEAN : barrier_complete_read(complete)
  \/ barrier_slow_retry
  \/ barrier_slow_give_up
  \/ \E complete \in BOOLEAN : wait_until_read(complete)
  \/ wait_until_timeout
  \/ barrier_children_done
  \/ \E val \in StatusReads : wait_while_busy(val)
  \/ \E val \in StatusReads : wait_while_exit(val)
  \/ bring_up_return
  \/ complete_return

\* STATUS is read without both BUSY and ON_INVALIDATING.
StatusNotBusy == \E val \in StatusReads : wait_while_exit(val)

NextBarrier ==
  \/ /\ Idle /\ bar.pc = "none"
     /\ \E version \in BarrierVersions :
          s2mpu_init(TRUE, version, TRUE, AllTrue, AllTrue)
  \/ BarrierBegin
  \/ BarrierRun
  \/ op_return

SpecBarrier == Init /\ [][NextBarrier]_vars

\* The hypervisor runs the operation to its end without being preempted,
\* and, by assumption, the S2MPU finishes its invalidation: a STATUS read
\* without both bits happens if the code keeps reading STATUS.
SpecBarrierLive ==
  SpecBarrier /\ WF_vars(BarrierRun) /\ WF_vars(StatusNotBusy)

(* The register-read specification: resume and suspend with VERSION and   *)
(* NUM_CONTEXT free to read any value at any time, cached or not, on a     *)
(* driver initialised for v1, v2 or v9, between changes of host_mpt.       *)

NextReads ==
  \/ /\ Idle
     /\ \E version \in VersionReads :
          s2mpu_init(TRUE, version, TRUE, AllTrue, AllTrue)
  \/ /\ Idle
     /\ \E d \in Devs, ver \in VersionReads, num_ctx \in NumContextReads :
          s2mpu_resume(d, ver, num_ctx, [c \in Children(d) |-> 1], 0, {})
  \/ /\ Idle
     /\ \E d \in Devs, ver \in VersionReads, num_ctx \in NumContextReads :
          s2mpu_suspend(d, ver, num_ctx, [c \in Children(d) |-> 1], 0, {})
  \/ /\ Idle
     /\ \E r \in RangeInputs, prot \in KvmProts :
          s2mpu_host_stage2_idmap_prepare(r[1], r[2], prot)
  \/ op_return

SpecReads == Init /\ [][NextReads]_vars

(* ------------------------------ properties ---------------------------- *)

\* Every region of device d is blocked for every access.
BlockAll(d) ==
  \A gb \in Gigabytes : hw[d].attr[gb] = L1ENTRY_ATTR_1G(MPT_PROT_NONE)

\* Protection is switched on in device d: CTRL0.ENABLE on v1/v2, every VID
\* in V9_CTRL_PROT_EN_PER_VID_SET on v9.
ProtectionEnabled(d) ==
  IF reg_ops = "ops_v9"
    THEN hw[d].regs["V9_CTRL_PROT_EN_PER_VID_SET"] = << ALL_VIDS_BITMAP >>
    ELSE /\ Len(hw[d].regs["CTRL0"]) = 1
         /\ "ENABLE" \in hw[d].regs["CTRL0"][1]

\* The canonical form of the host's range [start, end): end clamped to
\* PA_MAX, start rounded down and end rounded up to SMPT_GRAN.
CanonStart(start) == start - (start % SMPT_GRAN)

CanonEnd(end) ==
  LET e == IF end < PA_MAX THEN end ELSE PA_MAX
  IN IF e % SMPT_GRAN = 0 THEN e ELSE e + SMPT_GRAN - (e % SMPT_GRAN)

CanonEmpty(start, end) == CanonStart(start) >= CanonEnd(end)

\* Region gb has a byte in the canonical form of [start, end).
RegionInRange(gb, start, end) ==
  /\ ~CanonEmpty(start, end)
  /\ CanonStart(start) < (gb + 1) * SZ_1G
  /\ CanonEnd(end) > gb * SZ_1G

(* C1: after a suspend(dev) that returns 0, whatever came before and on   *)
(* every hardware version, every 1 GiB region of the device's hardware MPT *)
(* has protection NONE and protection is enabled.                          *)
C1_SuspendBlocksAll ==
  \A d \in Devs :
    (call.op = "suspend" /\ call.dev = d /\ call.ret = "0")
      => (BlockAll(d) /\ ProtectionEnabled(d))

\* A v9 device that was Active, suspended while the host MPT grants access.
C1_Witness ==
  /\ call.op = "suspend" /\ call.ret = "0"
  /\ reg_ops = "ops_v9"
  /\ \E gb \in Gigabytes : host_mpt[gb].gran_1g /\ host_mpt[gb].prot = MPT_PROT_RW
  /\ \E gb \in Gigabytes : ~host_mpt[gb].gran_1g

(* C2: after a resume(dev) that returns 0, the device's hardware MPT is    *)
(* the current host_mpt on every 1 GiB region and protection is enabled.   *)
C2_ResumeLoadsHostMpt ==
  \A d \in Devs :
    (call.op = "resume" /\ call.dev = d /\ call.ret = "0")
      => /\ \A gb \in Gigabytes : HwFollows(hw[d], host_mpt, gb)
         /\ ProtectionEnabled(d)

\* A resume that loads an MPT with a fine-grained and a blocked region.
C2_Witness ==
  /\ call.op = "resume" /\ call.ret = "0"
  /\ \E gb \in Gigabytes : ~host_mpt[gb].gran_1g
  /\ \E gb \in Gigabytes : host_mpt[gb].gran_1g /\ host_mpt[gb].prot = MPT_PROT_NONE

(* C3: a device in the Reset state keeps a block-all hardware MPT through  *)
(* any sequence of idmap_prepare, idmap_apply and idmap_complete.          *)
C3_ResetStaysBlocked ==
  \A d \in Devs : life[d] = "Reset" => BlockAll(d)

(* C4: after prepare, apply and complete with a range that is not empty    *)
(* in canonical form, the hardware MPT of every Active device is host_mpt  *)
(* on every region the range touches; with the range [0, PA_MAX) and       *)
(* protection NONE every device is left block-all.                         *)
C4_IdmapReachesHardware ==
  call.op = "idmap" =>
    /\ \A d \in Devs, gb \in Gigabytes :
         (life[d] = "Active" /\ RegionInRange(gb, call.start, call.end))
           => HwFollows(hw[d], host_mpt, gb)
    /\ (call.start = 0 /\ call.end = PA_MAX /\ call.prot \cap {"R", "W"} = {})
         => \A d \in Devs : BlockAll(d)

\* An update across the region boundary reaches an Active device, whose
\* other entries are still those of the resume.
C4_Witness ==
  /\ call.op = "idmap"
  /\ call.start = SZ_1G - 1 /\ call.end = SZ_1G + 1
  /\ \E d \in Devs : life[d] = "Active"
  /\ \A gb \in Gigabytes : ~host_mpt[gb].gran_1g

(* C5: a call of idmap_prepare or idmap_apply whose range is empty in      *)
(* canonical form leaves host_mpt and every device unchanged and makes no  *)
(* MMIO access.                                                            *)
C5_EmptyRangeIsNoOp ==
  [][ (call'.op \in {"prepare", "apply"} /\ CanonEmpty(call'.start, call'.end))
        => (host_mpt' = host_mpt /\ hw' = hw /\ trace' = << >>) ]_vars

\* An apply with an empty range on a device whose entries are stale.
C5_Witness ==
  /\ call.op = "apply"
  /\ CanonEmpty(call.start, call.end)
  /\ call.end > call.start
  /\ \E gb \in Gigabytes : ~HwFollows(hw[call.dev], host_mpt, gb)

\* The donations of the last operation that went through, by function.
Donated(fn) ==
  SelectSeq(trace, LAMBDA e : e.t = "D" /\ e.reg = fn /\ e.val)

(* C6: when init returns an error, host_mpt is zero, no SMPT buffer is the *)
(* hypervisor's, and the regions 0..k-1 the call had claimed are handed    *)
(* back with donate_hyp_to_host, each once.                                *)
C6_InitFailureRollsBack ==
  (call.op = "init" /\ call.ret # "0") =>
    /\ host_mpt = MptZero
    /\ \A gb \in Gigabytes : pages[gb] = "host"
    /\ LET k == Len(Donated("__pkvm_host_donate_hyp"))
           back == Donated("__pkvm_hyp_donate_host")
       IN /\ Len(back) = k
          /\ \A i \in 1 .. k : back[i].idx = i - 1

\* init fails at a region after claiming the first one.
C6_Witness ==
  /\ call.op = "init" /\ call.ret = "-EINVAL"
  /\ Len(Donated("__pkvm_host_donate_hyp")) >= 1

\* A write of an L1 entry register.
IsL1Write(e) ==
  e.t = "W" /\ e.reg \in {"L1ENTRY_ATTR", "L1ENTRY_L2TABLE_ADDR"}

\* A write of CONTEXT_CFG_VALID_VID with a value that is not 0.
IsCtxCfgWrite(e) ==
  e.t = "W" /\ e.reg = "CONTEXT_CFG_VALID_VID" /\ e.val # CtxCfgZero

\* The driver treats device d as a v2 or a v9.
IsV2OrV9(d) == reg_ops = "ops_v9" \/ is_version(data[d], "V2")

(* C10: in a resume or suspend of a v2 or v9 device, CONTEXT_CFG_VALID_VID *)
(* is written with a value that is not 0 before the first L1ENTRY write    *)
(* (and is written whenever the bring-up goes through).                    *)
C10_CtxCfgBeforeL1Entry ==
  (call.op \in {"resume", "suspend"} /\ IsV2OrV9(call.dev)) =>
    /\ \A i \in 1 .. Len(trace) :
         IsL1Write(trace[i]) => \E j \in 1 .. (i - 1) : IsCtxCfgWrite(trace[j])
    /\ call.ret = "0" => \E j \in 1 .. Len(trace) : IsCtxCfgWrite(trace[j])

\* A v9 resume that writes L1 entries.
C10_Witness ==
  /\ call.op = "resume" /\ call.ret = "0" /\ reg_ops = "ops_v9"
  /\ \E i \in 1 .. Len(trace) : IsL1Write(trace[i])

\* The last operation was a host MMIO trap.
Trapped == call.op = "dabt"

(* C7: a host MMIO trap whose width is not 4 bytes, whose offset is not    *)
(* 4-byte aligned or whose access mask is 0 is unhandled, makes no MMIO    *)
(* access and leaves every host register unchanged.                        *)
C7_BadTrapRejected ==
  (/\ Trapped
   /\ \/ 2 ^ dabt.sas # 4
      \/ dabt.off.byte # 0
      \/ host_mmio_reg_access_mask(reg_ops, dabt.off, dabt.is_write) = {})
    => (call.ret = "false" /\ trace = << >> /\ dabt.regs_out = dabt.regs)

\* A 4-byte load from the middle of an L1 entry register, which could be
\* read if the offset were aligned.
C7_Witness ==
  /\ Trapped
  /\ 2 ^ dabt.sas = 4 /\ dabt.off.byte # 0 /\ ~dabt.is_write
  /\ dabt.off.reg = "L1ENTRY_ATTR"
  /\ dabt.regs[0] # dabt.regs[1]

\* The registers a host store is forwarded to.
HostWritable ==
  {"INTERRUPT_CLEAR"} \cup
    (IF reg_ops = "ops_v9"
       THEN {"V9_READ_STLB", "V9_READ_MPTC", "V9_READ_PTLB"}
       ELSE {"READ_MPTC"})

\* Registers that hold or change the protection configuration.
ProtectionRegs ==
  { "L1ENTRY_ATTR", "L1ENTRY_L2TABLE_ADDR", "CTRL0", "CTRL1", "CFG",
    "CONTEXT_CFG_VALID_VID", "V9_CTRL_PROT_EN_PER_VID_SET",
    "V9_CTRL_ERR_RESP_T_PER_VID_SET", "ALL_INVALIDATION",
    "RANGE_INVALIDATION", "RANGE_INVALIDATION_START_PPN",
    "RANGE_INVALIDATION_END_PPN" }

(* C8: a host MMIO trap leaves the protection configuration of every       *)
(* device as it was; a store is forwarded only to INTERRUPT_CLEAR and the  *)
(* READ_* selector registers of the version, and a store to a register of  *)
(* the protection configuration is unhandled with no MMIO access.          *)
C8_TrapKeepsProtection ==
  [][ call'.op = "dabt" =>
        /\ hw' = hw
        /\ \A i \in 1 .. Len(trace') :
             trace'[i].t = "W" => trace'[i].reg \in HostWritable'
        /\ (dabt'.is_write /\ dabt'.off.reg \in ProtectionRegs)
             => (call'.ret = "false" /\ trace' = << >>) ]_vars

\* A store forwarded to a selector register of an Active v9 device.
C8_Witness ==
  /\ Trapped /\ call.ret = "true"
  /\ dabt.is_write /\ dabt.off.reg = "V9_READ_PTLB"
  /\ life[call.dev] = "Active"
  /\ Len(trace) = 1

\* The kind and place of each MMIO access of a trace.
AccessKinds(tr) == [i \in 1 .. Len(tr) |-> << tr[i].t, tr[i].reg >>]

(* C9: with the offset, the ESR and the hardware generation of a trap, the *)
(* handler returns the same result and makes the same kind of MMIO access  *)
(* at the same offset for any other host register values and device        *)
(* register contents, in either lifecycle state.                           *)
C9_TrapResultStateFree ==
  Trapped =>
    \A regs \in [Rds -> Words], readval \in Words :
      LET other == dabt_handler(reg_ops, call.dev, dabt.off, dabt.is_write,
                                dabt.sas, dabt.rd, regs, readval)
      IN /\ other.handled = (call.ret = "true")
         /\ AccessKinds(other.tr) = AccessKinds(trace)

\* A load handled on an Active device, which changed a host register.
C9_Witness ==
  /\ Trapped /\ call.ret = "true"
  /\ ~dabt.is_write /\ dabt.regs_out # dabt.regs
  /\ life[call.dev] = "Active"

\* The SMPT entries of region gb that the canonical form of [start, end)
\* covers.
InRange(gb, c, start, end) ==
  /\ ~CanonEmpty(start, end)
  /\ gb * SZ_1G + c * SMPT_GRAN >= CanonStart(start)
  /\ gb * SZ_1G + (c + 1) * SMPT_GRAN <= CanonEnd(end)

(* C11, as claimed: granting read-write on a range and then revoking it    *)
(* leaves every SMPT entry of the range with the permission it had before  *)
(* the grant.                                                              *)
C11_RoundTripRestores ==
  [][ call'.op = "idmap_rw_none" =>
        \A gb \in Gigabytes, c \in SmptIdx :
          InRange(gb, c, call'.start, call'.end)
            => MptProt(host_mpt', gb, c) = MptProt(host_mpt, gb, c) ]_vars

(* C11, amended: granting read-write on a range and then revoking it       *)
(* leaves every SMPT entry of the canonical range with no access, whatever *)
(* it had before, and every other entry with the permission it had.        *)
C11_RoundTripRevokes ==
  [][ call'.op = "idmap_rw_none" =>
        \A gb \in Gigabytes, c \in SmptIdx :
          MptProt(host_mpt', gb, c) =
            IF InRange(gb, c, call'.start, call'.end)
              THEN MPT_PROT_NONE
              ELSE MptProt(host_mpt, gb, c) ]_vars

\* A grant and revoke on part of a region, the rest of which is readable
\* and writable.
C11_Witness ==
  /\ call.op = "idmap_rw_none"
  /\ call.start = 1 /\ call.end = SMPT_GRAN
  /\ ~host_mpt[0].gran_1g
  /\ \E c \in SmptIdx : host_mpt[0].tbl[c] = MPT_PROT_RW
  /\ \E c \in SmptIdx : host_mpt[0].tbl[c] = MPT_PROT_NONE

\* The number of SYNC_CMD writes to child c of the device in the barrier,
\* beyond the one __invalidation_barrier_init makes in resume and suspend.
Reissued(c) ==
  Cardinality({ k \in DOMAIN trace :
                  trace[k] = W(Sync(bar.dev, c), "SYNC_CMD", 0, "SYNC") })
    - (IF bar.op = "complete" THEN 0 ELSE 1)

SlowPathPolls == << 5, 15, 45, 135, 405 >>

\* The polls after each re-issue stay within the budget, and every round
\* but the last was polled to its end.
WithinBudget(rounds) ==
  /\ Len(rounds) <= 5
  /\ \A k \in DOMAIN rounds :
       /\ rounds[k] <= SlowPathPolls[k]
       /\ k < Len(rounds) => rounds[k] = SlowPathPolls[k]

C12_ChildOutcomes ==
  bar.pc # "none" =>
    /\ WithinBudget(bar.rounds)
    /\ bar.pc \in {"slow", "wait_until"} => Reissued(bar.child) = Len(bar.rounds)
    /\ \A c \in DOMAIN bar.done :
         /\ WithinBudget(bar.done[c].rounds)
         /\ Reissued(c) = Len(bar.done[c].rounds)
         /\ ~bar.done[c].complete => bar.done[c].rounds = SlowPathPolls

C12_FirstReadComplete ==
  (bar.pc = "children" /\ bar'.pc = "children" /\ bar'.child = bar.child + 1)
    => /\ bar'.done[bar.child] = [complete |-> TRUE, rounds |-> << >>]
       /\ trace' = trace

C12_NoPollAfterComplete ==
  (bar.pc = "wait_until" /\ bar'.child = bar.child + 1)
    => /\ bar'.done[bar.child].complete
       /\ bar'.pc = "children"
       /\ trace' = trace

(* C12: in the barrier, the slow path of a child whose SYNC_COMP never     *)
(* shows COMPLETE re-issues SYNC_CMD exactly 5 times, polls SYNC_COMP at   *)
(* most 5, 15, 45, 135 and 405 times after the respective re-issue and     *)
(* then returns; it stops at the first poll that shows COMPLETE; a child   *)
(* whose first read shows COMPLETE gets no re-issue.                       *)
C12_SlowPathBudget ==
  /\ []C12_ChildOutcomes
  /\ [][C12_FirstReadComplete /\ C12_NoPollAfterComplete]_vars

\* A child was given up after the whole budget.
C12_Witness ==
  /\ bar.pc \in {"children", "status", "done"}
  /\ Len(bar.done) = 1
  /\ bar.done[1] = [complete |-> FALSE, rounds |-> SlowPathPolls]

(* C13: on a v2 or v9 device every barrier (in resume, suspend and        *)
(* idmap_complete) waits on STATUS after the children: the code goes on to *)
(* the control registers or returns only from the STATUS wait.             *)
C13_StatusWaitOnV2V9 ==
  [][ (bar'.pc = "done" /\ bar.pc # "done" /\ IsV2OrV9(bar.dev))
        => bar.pc = "status" ]_vars

(* C14: the device-busy wait returns only after a read of STATUS in which *)
(* neither BUSY nor ON_INVALIDATING is set.                                *)
C14_WaitEndsNotBusy ==
  [][ (bar.pc = "status" /\ bar'.pc = "done") => bar'.status = {} ]_vars

\* Some child of the device in the barrier was left without COMPLETE.
ChildGivenUp == \E c \in DOMAIN bar.done : ~bar.done[c].complete

(* C15, as claimed: STATUS is polled only if every child was seen with     *)
(* COMPLETE, never after the slow path of a child ran out of retries.      *)
C15_StatusOnlyAfterComplete ==
  bar.pc = "status" => ~ChildGivenUp

(* C15, amended: after the last child the code polls STATUS exactly when   *)
(* the device's cached version is v2 or v9, whether every child was seen   *)
(* with COMPLETE or the slow path of one ran out of retries.               *)
C15_StatusAfterChildren ==
  [][ (bar.pc = "children" /\ bar'.pc \in {"status", "done"})
        => /\ bar.child > NrChildrenOf(bar.dev)
           /\ bar'.pc = "status" <=> \/ is_version(data[bar.dev], "V2")
                                     \/ is_version(data[bar.dev], "V9") ]_vars

\* STATUS is being polled on a v2 device although a child was given up.
C15_Witness ==
  /\ bar.pc = "status"
  /\ is_version(data[bar.dev], "V2")
  /\ bar.spin = 1
  /\ ChildGivenUp

\* The last operation returned 0 and its last accesses were the writes of
\* reg_ops->set_control_regs, which left protection enabled.
ReturnedEnabled(op) ==
  /\ bar.pc = "none"
  /\ call.op = op /\ call.ret = "0"
  /\ LET tr == reg_ops_set_control_regs(reg_ops, call.dev, data[call.dev])
     IN /\ Len(trace) >= Len(tr)
        /\ SubSeq(trace, Len(trace) - Len(tr) + 1, Len(trace)) = tr
  /\ ProtectionEnabled(call.dev)

(* C16: whatever SYNC_COMP answers, a resume, suspend or idmap_complete    *)
(* that reached the barrier returns, given that STATUS is at some point    *)
(* read not busy; on a v1 device STATUS is not waited for at all.  Resume  *)
(* and suspend then have written the control registers and returned 0.     *)
C16_BarrierTerminates ==
  /\ (bar.op = "resume") ~> ReturnedEnabled("resume")
  /\ (bar.op = "suspend") ~> ReturnedEnabled("suspend")
  /\ (bar.op = "complete") ~> (bar.pc = "none" /\ call.op = "complete")
  /\ [](bar.pc = "status" => ~is_version(data[bar.dev], "V1"))

\* A resume returned 0 although its child never showed COMPLETE: SYNC_CMD
\* was written once by the barrier's start and 5 times by the slow path.
C16_Witness ==
  /\ ReturnedEnabled("resume")
  /\ Cardinality({ k \in DOMAIN trace :
                     trace[k] = W(Sync(call.dev, 1), "SYNC_CMD", 0, "SYNC") }) = 6

\* The place of a write in the order of a v2 resume; 0 for a write that
\* has no place in it.
ResumePhase(e) ==
  IF e.reg = "CONTEXT_CFG_VALID_VID" THEN 1
  ELSE IF IsL1Write(e) THEN 2
  ELSE IF e.reg = "ALL_INVALIDATION" THEN 3
  ELSE IF e.reg = "SYNC_CMD" THEN 4
  ELSE IF e.reg = "INTERRUPT_ENABLE_PER_VID_SET" THEN 5
  ELSE IF e.reg = "CFG" THEN 6
  ELSE IF e.reg = "CTRL1" THEN 7
  ELSE IF e.reg = "CTRL0" THEN 8
  ELSE 0

\* The last operation was a resume of a v2 device that returned 0.
ResumedV2 ==
  /\ call.op = "resume" /\ call.ret = "0"
  /\ reg_ops = "ops_v1_v2"
  /\ is_version(data[call.dev], "V2")

(* C17: the writes of a successful resume of a v2 device come in this      *)
(* order: CONTEXT_CFG_VALID_VID, every L1 entry of host_mpt,               *)
(* ALL_INVALIDATION, SYNC_CMD on every child, INTERRUPT_ENABLE_PER_VID_SET,*)
(* CFG, CTRL1 and last CTRL0 with ENABLE, INTERRUPT_ENABLE and             *)
(* FAULT_RESP_TYPE_DECERR; no MPT or invalidation write follows a write of *)
(* a control register.                                                     *)
C17_ResumeWriteOrder ==
  ResumedV2 =>
    LET d == call.dev
        ws == Writes(trace)
        Only(ph) == { k \in DOMAIN ws : ResumePhase(ws[k]) = ph }
    IN /\ \A k \in DOMAIN ws : ResumePhase(ws[k]) # 0
       /\ \A j, k \in DOMAIN ws : j < k => ResumePhase(ws[j]) <= ResumePhase(ws[k])
       /\ \A ph \in {1, 3, 5, 6, 7, 8} : Cardinality(Only(ph)) = 1
       /\ SelectSeq(trace, IsL1Write) = init_with_mpt(S2mpu(d), host_mpt)
       /\ \A c \in Children(d) :
            \E k \in Only(4) : ws[k].dev = Sync(d, c)
       /\ ws[Len(ws)] = W(S2mpu(d), "CTRL0", 0,
                          {"ENABLE", "INTERRUPT_ENABLE", "FAULT_RESP_TYPE_DECERR"})

\* A v2 resume with an MPT that has a second-level table and a child on
\* which SYNC_CMD had to be issued again.
C17_Witness ==
  /\ ResumedV2
  /\ \E gb \in Gigabytes : ~host_mpt[gb].gran_1g
  /\ Cardinality({ k \in DOMAIN trace :
                     trace[k].t = "W" /\ trace[k].reg = "SYNC_CMD" }) > 1

\* The write that enables protection: CTRL0 with ENABLE on v1 and v2,
\* V9_CTRL_PROT_EN_PER_VID_SET with every VID on v9.
IsEnableWrite(e) ==
  /\ e.t = "W"
  /\ IF reg_ops = "ops_v9"
       THEN e.reg = "V9_CTRL_PROT_EN_PER_VID_SET" /\ e.val = ALL_VIDS_BITMAP
       ELSE e.reg = "CTRL0" /\ "ENABLE" \in e.val

(* C18: in every resume and suspend that goes through, on every version,   *)
(* the write that enables protection is the last MMIO write of the         *)
(* operation.                                                              *)
C18_EnableWriteLast ==
  (call.op \in {"resume", "suspend"} /\ call.ret = "0") =>
    LET ws == Writes(trace)
    IN Len(ws) > 0 /\ IsEnableWrite(ws[Len(ws)])

\* The accesses of a bring-up that went through without reading VERSION or
\* NUM_CONTEXT: the context configuration on v2 and v9, the L1 entries l1,
\* ALL_INVALIDATION and the write that enables protection.
FullBringUp(d, tr, l1) ==
  /\ \A k \in DOMAIN tr : tr[k].t # "R"
  /\ IsV2OrV9(d) => \E k \in DOMAIN tr : IsCtxCfgWrite(tr[k])
  /\ SelectSeq(tr, IsL1Write) = l1
  /\ \E k \in DOMAIN tr : tr[k] = W(S2mpu(d), "ALL_INVALIDATION", 0, "INVALIDATE")
  /\ \E k \in DOMAIN tr : IsEnableWrite(tr[k])

C19_LaterBringUp ==
  \A d \in Devs :
    (ProtectionEnabled(d) /\ call'.op \in {"resume", "suspend"} /\ call'.dev = d)
      => /\ call'.ret = "0"
         /\ FullBringUp(d, trace',
                        IF call'.op = "resume"
                          THEN init_with_mpt(S2mpu(d), host_mpt)
                          ELSE init_with_prot(S2mpu(d), MPT_PROT_NONE))

(* C19: a device that a resume has brought up (life Active) has protection *)
(* enabled, and on a device with protection enabled by an earlier resume   *)
(* or suspend every later resume and suspend returns 0 and makes all its   *)
(* writes without reading VERSION or NUM_CONTEXT, whatever they would      *)
(* read.                                                                   *)
C19_CachedBringUp ==
  /\ [](\A d \in Devs : life[d] = "Active" => ProtectionEnabled(d))
  /\ [][C19_LaterBringUp]_vars

\* A resume after a resume and a suspend, on a v2 device.
C19_Witness ==
  /\ ResumedV2
  /\ \A k \in DOMAIN trace : trace[k].t # "R"
  /\ \E gb \in Gigabytes : ~host_mpt[gb].gran_1g

(* C20: a resume or suspend that returns an error has written no register *)
(* of the device or of its children, and the hardware is as it was before  *)
(* the call.                                                               *)
C20_ErrorWritesNothing ==
  [][ (call'.op \in {"resume", "suspend"} /\ call'.ret # "0")
        => /\ hw' = hw
           /\ \A k \in DOMAIN trace' : trace'[k].t = "R"
           /\ life' = life ]_vars

\* A suspend of a v2 device failed because NUM_CONTEXT read 0, after
\* host_mpt had been given a second-level table.
C20_Witness ==
  /\ call.op = "suspend" /\ call.ret = "-EINVAL"
  /\ is_version(data[call.dev], "V2")
  /\ trace = << R(S2mpu(call.dev), "NUM_CONTEXT") >>
  /\ \E gb \in Gigabytes : ~host_mpt[gb].gran_1g

\* A resume failed because VERSION read neither v1 nor v2.
C20_WitnessVersion ==
  /\ call.op = "resume" /\ call.ret = "-EINVAL"
  /\ reg_ops = "ops_v1_v2"
  /\ trace = << R(S2mpu(call.dev), "VERSION") >>

\* The end of the host's range [start, end) clamped to the covered address
\* space.
ClampedEnd(end) == IF end < PA_MAX THEN end ELSE PA_MAX

\* SMPT entry c of region gb has a byte in [start, ClampedEnd(end)).
EntryRequested(gb, c, start, end) ==
  /\ start < gb * SZ_1G + (c + 1) * SMPT_GRAN
  /\ ClampedEnd(end) > gb * SZ_1G + c * SMPT_GRAN

\* What to_valid_range makes of a range with a byte below PA_MAX: it
\* accepts, the result is aligned, lies below PA_MAX and contains the
\* request, and the endpoints, region indexes and PPNs derived from it are
\* in order.
C21_Canonical(start, end) ==
  LET v == to_valid_range(start, end)
      first_byte == v.start
      last_byte == v.end - 1
  IN /\ v.ok
     /\ v.start <= start /\ ClampedEnd(end) <= v.end
     /\ v.start % SMPT_GRAN = 0 /\ v.end % SMPT_GRAN = 0
     /\ v.start < v.end /\ v.end <= PA_MAX
     /\ first_byte <= last_byte /\ last_byte < PA_MAX
     /\ first_byte \div SZ_1G <= last_byte \div SZ_1G
     /\ last_byte \div SZ_1G < NR_GIGABYTES
     /\ first_byte \div PpnSize <= last_byte \div PpnSize

\* What a prepare of such a range does: every SMPT entry with a requested
\* byte gets the permission asked for.
C21_PrepareCovers ==
  (call'.op = "prepare" /\ call'.start < ClampedEnd(call'.end))
    => /\ C21_Canonical(call'.start, call'.end)
       /\ \A gb \in Gigabytes, c \in SmptIdx :
            EntryRequested(gb, c, call'.start, call'.end)
              => MptProt(host_mpt', gb, c) = prot_to_mpt(call'.prot)

\* What an apply of such a range does: it writes the L1 entries of exactly
\* the regions first_gb .. last_gb, all of them regions of the MPT and among
\* them every region with a requested byte, and starts a range invalidation
\* from a start PPN that is not above the end PPN.
C21_ApplyCovers ==
  (call'.op = "apply" /\ call'.start < ClampedEnd(call'.end))
    => LET v == to_valid_range(call'.start, call'.end)
           l1 == SelectSeq(trace', IsL1Write)
           gbs == { l1[k].idx : k \in DOMAIN l1 }
           ppn(reg) == SelectSeq(trace', LAMBDA e : e.t = "W" /\ e.reg = reg)
       IN /\ C21_Canonical(call'.start, call'.end)
          /\ gbs = (v.start \div SZ_1G) .. ((v.end - 1) \div SZ_1G)
          /\ gbs # {} /\ gbs \subseteq Gigabytes
          /\ \A gb \in Gigabytes, c \in SmptIdx :
               EntryRequested(gb, c, call'.start, call'.end) => gb \in gbs
          /\ Len(ppn("RANGE_INVALIDATION_START_PPN")) = 1
          /\ Len(ppn("RANGE_INVALIDATION_END_PPN")) = 1
          /\ ppn("RANGE_INVALIDATION_START_PPN")[1].val
               <= ppn("RANGE_INVALIDATION_END_PPN")[1].val
          /\ ppn("RANGE_INVALIDATION_START_PPN")[1].val = v.start \div PpnSize
          /\ ppn("RANGE_INVALIDATION_END_PPN")[1].val = (v.end - 1) \div PpnSize

(* C21: canonicalization never drops or narrows a request inside the       *)
(* covered address space: whenever [start, min(end, PA_MAX)) has a byte,   *)
(* to_valid_range accepts, the canonical range contains it, is aligned to  *)
(* SMPT_GRAN and ends at or below PA_MAX, and prepare and apply act on     *)
(* first_byte <= last_byte < PA_MAX, regions first_gb <= last_gb <         *)
(* NR_GIGABYTES and a start PPN not above the end PPN.                     *)
C21_RangeNeverNarrowed ==
  [][C21_PrepareCovers /\ C21_ApplyCovers]_vars

\* An apply of the last byte below PA_MAX, asked for with an end past
\* PA_MAX.
C21_Witness ==
  /\ call.op = "apply"
  /\ call.start = PA_MAX - 1 /\ call.end = PA_MAX + AddrSlack
  /\ \E k \in DOMAIN trace : IsL1Write(trace[k]) /\ trace[k].idx = NR_GIGABYTES - 1

\* A prepare of a range within one SMPT entry and off its boundaries.
C21_WitnessPrepare ==
  /\ call.op = "prepare"
  /\ call.start = SZ_1G + 1 /\ call.end = SZ_1G + 2
  /\ call.prot = {}
  /\ MptProt(host_mpt, 1, 0) = MPT_PROT_NONE

=============================================================================
